---- MODULE Spec2Model ----
(***************************************************************************)
(* A model of the MapCam discovery pipeline (src/main.py, InsecamScraper)  *)
(* and of the expansion engine (src/smart_camera_expander.py,              *)
(* SmartCameraExpander).                                                   *)
(*                                                                         *)
(* Python strings are sequences of one-character strings, so that strip,   *)
(* lower, "in", replace, float() and urlparse are computed character by    *)
(* character.  A float is its value in thousandths (an integer), or one of *)
(* the special values NaN, PosInf, NegInf.                                 *)
(***************************************************************************)
EXTENDS Integers, Sequences, FiniteSets, TLC

VARIABLES
    detail_page,      \* extract_camera_details: the detail source's answer for camera_url
    extract_pc,       \* extract_camera_details: "call" before the call, "returned" after
    extract_result,   \* extract_camera_details: the returned value (None or <<dict>>)
    probe_url,        \* test_camera_url: its argument url
    probe_response,   \* test_camera_url: what session.get(url) gives
    provider_a,       \* get_ip_geolocation: what the ipapi.co request gives
    provider_b,       \* get_ip_geolocation: what the ip-api.com request gives
    probe_pc,         \* test_camera_url: "call" before the call, "returned" after
    geo_calls,        \* the providers queried during the call, in order
    geo_info,         \* what get_ip_geolocation returned during the call
    probe_result,     \* test_camera_url: the returned value (None or <<dict>>)
    base_camera,      \* generate_similar_urls: the seed Record
    variations,       \* generate_similar_urls: the variation count
    gen_pc,           \* generate_similar_urls: "call" before the call, "returned" after
    gen_result,       \* generate_similar_urls: the returned URLs (a set: list(set(urls)))
    num_pages,        \* InsecamScraper.num_pages
    max_workers,      \* InsecamScraper.max_workers
    listing_source,   \* the listing source: what the fetch of each page gives
    bad_pages,        \* the detail source: the links whose detail page lacks a city
    raising_tasks,    \* the links whose task ends with an exception (future.result() raises)
    page_num,         \* scrape_cameras: the page the harvest loop fetches next
    fetch_log,        \* the listing pages fetched so far, in order
    all_camera_links, \* scrape_cameras: all_camera_links
    queue,            \* the pool: submitted tasks no worker has taken yet
    running,          \* the pool: tasks a worker is running
    done,             \* the pool: completed futures as_completed has yet to hand out, in completion order
    camera_data,      \* scrape_cameras: camera_data
    processed_count,  \* scrape_cameras: processed_count
    scraped_count,    \* InsecamScraper.scraped_count
    progress_log,     \* the progress lines printed: <<processed, accepted>>
    temp_file,        \* camera_data_temp.json
    final_file,       \* camera_data.json
    scrape_pc,        \* where scrape_cameras (and main around it) stands
    scrape_result,    \* what scrape_cameras returned
    cameras,          \* analyze_camera_patterns: its argument cameras
    analyze_pc,       \* analyze_camera_patterns: "call" before the call, "returned" after
    patterns,         \* analyze_camera_patterns: the returned patterns
    existing_cameras, \* SmartCameraExpander.existing_cameras, as load_existing_cameras gives it
    target_new_cameras, \* expand_camera_database: target_new_cameras
    expander_workers, \* SmartCameraExpander.max_workers
    test_urls,        \* expand_camera_database: test_urls (no duplicates, none existing)
    future_to_url,    \* expand_camera_database: the submitted URLs
    probe_queue,      \* the pool: submitted probes no worker has taken yet
    probe_running,    \* the pool: probes a worker is running
    probe_done,       \* the pool: results of the completed probes the loop has not taken
    new_cameras,      \* expand_camera_database: new_cameras
    tested_count,     \* expand_camera_database: tested_count
    expansion_file,   \* smart_expansion_cameras.json
    expanded_file,    \* expanded_camera_data.json
    expand_pc,        \* where expand_camera_database stands
    expand_result     \* what expand_camera_database returned

extractVars == <<detail_page, extract_pc, extract_result>>

probeVars == <<probe_url, probe_response, provider_a, provider_b, probe_pc,
               geo_calls, geo_info, probe_result>>

genVars == <<base_camera, variations, gen_pc, gen_result>>

scrapeVars == <<num_pages, max_workers, listing_source, bad_pages, raising_tasks,
                page_num, fetch_log, all_camera_links, queue, running, done,
                camera_data, processed_count,
                scraped_count, progress_log, temp_file, final_file, scrape_pc,
                scrape_result>>

analyzeVars == <<cameras, analyze_pc, patterns>>

expandVars == <<existing_cameras, target_new_cameras, expander_workers, test_urls,
                future_to_url, probe_queue, probe_running, probe_done, new_cameras,
                tested_count, expansion_file, expanded_file, expand_pc, expand_result>>

vars == <<extractVars, probeVars, genVars, scrapeVars, analyzeVars, expandVars>>

\* An Optional[Dict] is None (the empty sequence) or Some(d) (the one-element
\* sequence); "if result:" is result # None
None == <<>>

Some(d) == <<d>>

(***************************************************************************)
(* Python str primitives                                                   *)
(***************************************************************************)
Digits == <<"0", "1", "2", "3", "4", "5", "6", "7", "8", "9">>

IsDigit(c) == \E i \in 1..10 : Digits[i] = c

DigitVal(c) == (CHOOSE i \in 1..10 : Digits[i] = c) - 1

Upper == <<"A","B","C","D","E","F","G","H","I","J","K","L","M",
           "N","O","P","Q","R","S","T","U","V","W","X","Y","Z">>

Lower == <<"a","b","c","d","e","f","g","h","i","j","k","l","m",
           "n","o","p","q","r","s","t","u","v","w","x","y","z">>

LowerChar(c) ==
    IF \E i \in 1..26 : Upper[i] = c
    THEN Lower[CHOOSE i \in 1..26 : Upper[i] = c]
    ELSE c

\* str.lower()
StrLower(s) == [i \in 1..Len(s) |-> LowerChar(s[i])]

IsSpace(c) == c \in {" ", "\t", "\n"}

RECURSIVE LStrip(_)
LStrip(s) == IF s # <<>> /\ IsSpace(Head(s)) THEN LStrip(Tail(s)) ELSE s

RECURSIVE RStrip(_)
RStrip(s) ==
    IF s # <<>> /\ IsSpace(s[Len(s)]) THEN RStrip(SubSeq(s, 1, Len(s) - 1)) ELSE s

\* str.strip()
Strip(s) == RStrip(LStrip(s))

\* s.startswith(p)
StartsWith(s, p) == Len(p) <= Len(s) /\ SubSeq(s, 1, Len(p)) = p

\* the suffix of s that starts at index i (s[i-1:] in Python)
From(s, i) == SubSeq(s, i, Len(s))

\* sub in s
Contains(s, sub) == \E i \in 1..(Len(s) - Len(sub) + 1) : StartsWith(From(s, i), sub)

\* s.find(sub), 1-based; 0 when absent
Find(s, sub) ==
    IF Contains(s, sub)
    THEN CHOOSE i \in 1..(Len(s) - Len(sub) + 1) :
            /\ StartsWith(From(s, i), sub)
            /\ \A j \in 1..(i - 1) : ~StartsWith(From(s, j), sub)
    ELSE 0

\* str.replace(old, new) for a non-empty old: every non-overlapping
\* occurrence, left to right
RECURSIVE Replace(_, _, _)
Replace(s, old, new) ==
    IF s = <<>> THEN <<>>
    ELSE IF StartsWith(s, old) THEN new \o Replace(From(s, Len(old) + 1), old, new)
    ELSE <<Head(s)>> \o Replace(Tail(s), old, new)

RECURSIVE DigitsVal(_)
DigitsVal(s) ==
    IF s = <<>> THEN 0 ELSE DigitsVal(SubSeq(s, 1, Len(s) - 1)) * 10 + DigitVal(s[Len(s)])

AllDigits(s) == \A i \in 1..Len(s) : IsDigit(s[i])

\* str(n) for n >= 0
RECURSIVE NatStr(_)
NatStr(n) == IF n < 10 THEN <<Digits[n + 1]>> ELSE NatStr(n \div 10) \o <<Digits[(n % 10) + 1]>>

(***************************************************************************)
(* float(): [sign] digits [. digits] with at least one digit, and the      *)
(* special spellings nan / inf / infinity; anything else is a ValueError.  *)
(* The value is kept in thousandths; the inputs of the model carry at most *)
(* FracDigits fractional digits, so the value is exact.                    *)
(***************************************************************************)
FracDigits == 3

ValueError == [kind |-> "ValueError"]
NaN == [kind |-> "nan"]
PosInf == [kind |-> "inf"]
NegInf == [kind |-> "-inf"]

\* the float whose value is n / 10^FracDigits
Num(n) == [kind |-> "num", scaled |-> n]

RECURSIVE Pow10(_)
Pow10(n) == IF n = 0 THEN 1 ELSE 10 * Pow10(n - 1)

\* the unsigned part of a float literal, in thousandths
Magnitude(u) ==
    LET dot  == Find(u, <<".">>)
        ip   == IF dot = 0 THEN u ELSE SubSeq(u, 1, dot - 1)
        fp   == IF dot = 0 THEN <<>> ELSE From(u, dot + 1)
    IN  IF /\ AllDigits(ip) /\ AllDigits(fp)
           /\ Len(ip) + Len(fp) > 0
           /\ Len(fp) <= FracDigits
        THEN Num(DigitsVal(ip) * Pow10(FracDigits)
                 + DigitsVal(fp) * Pow10(FracDigits - Len(fp)))
        ELSE ValueError

ParseFloat(s) ==
    LET t    == Strip(s)
        neg  == t # <<>> /\ Head(t) = "-"
        u    == IF t # <<>> /\ Head(t) \in {"-", "+"} THEN Tail(t) ELSE t
        low  == StrLower(u)
    IN  IF low = <<"n","a","n">> THEN NaN
        ELSE IF low \in {<<"i","n","f">>, <<"i","n","f","i","n","i","t","y">>}
             THEN IF neg THEN NegInf ELSE PosInf
        ELSE IF Magnitude(u) = ValueError THEN ValueError
        ELSE IF neg THEN Num(0 - Magnitude(u).scaled) ELSE Magnitude(u)

\* a <= x <= b on floats: every comparison with nan is False
FloatBetween(a, x, b) ==
    /\ x.kind = "num"
    /\ a * Pow10(FracDigits) <= x.scaled
    /\ x.scaled <= b * Pow10(FracDigits)

(***************************************************************************)
(* urllib.parse.urlparse and ipaddress.IPv4Address                         *)
(***************************************************************************)
\* index of the first character of s that is in cs; Len(s) + 1 when none is
FirstOf(s, cs) ==
    IF \E i \in 1..Len(s) : s[i] \in cs
    THEN CHOOSE i \in 1..Len(s) : s[i] \in cs /\ \A j \in 1..(i - 1) : s[j] \notin cs
    ELSE Len(s) + 1

\* index of the last occurrence of character c in s; 0 when absent
LastOf(s, c) ==
    IF \E i \in 1..Len(s) : s[i] = c
    THEN CHOOSE i \in 1..Len(s) : s[i] = c /\ \A j \in (i + 1)..Len(s) : s[j] # c
    ELSE 0

IsLetter(c) == \E i \in 1..26 : Upper[i] = c \/ Lower[i] = c

\* s.split(c)
RECURSIVE Split(_, _)
Split(s, c) ==
    LET i == FirstOf(s, {c})
    IN  IF i > Len(s) THEN <<s>>
        ELSE <<SubSeq(s, 1, i - 1)>> \o Split(From(s, i + 1), c)

\* urlparse(url): the scheme is the letters before the first ":", the netloc
\* follows "//" up to the first of "/", "?", "#", the path ends at the first
\* "?" or "#".  A netloc with one square bracket and not the other raises
\* ValueError ("Invalid IPv6 URL").
urlparse(url) ==
    LET colon     == FirstOf(url, {":"})
        hasScheme == /\ colon > 1 /\ colon <= Len(url)
                     /\ \A i \in 1..(colon - 1) : IsLetter(url[i])
        rest      == IF hasScheme THEN From(url, colon + 1) ELSE url
        hasNetloc == StartsWith(rest, <<"/", "/">>)
        afterSl   == IF hasNetloc THEN From(rest, 3) ELSE rest
        netEnd    == FirstOf(afterSl, {"/", "?", "#"})
        netloc    == IF hasNetloc THEN SubSeq(afterSl, 1, netEnd - 1) ELSE <<>>
        tail      == IF hasNetloc THEN From(afterSl, netEnd) ELSE rest
        pathEnd   == FirstOf(tail, {"?", "#"})
    IN  [error  |-> Contains(netloc, <<"[">>) # Contains(netloc, <<"]">>),
         netloc |-> netloc,
         path   |-> SubSeq(tail, 1, pathEnd - 1)]

\* the host-and-port part of a netloc: what follows the last "@"
HostInfo(netloc) == From(netloc, LastOf(netloc, "@") + 1)

\* parsed.hostname: lower-cased, None (here the empty string) when empty
hostname(parsed) ==
    LET hi == HostInfo(parsed.netloc)
    IN  StrLower(SubSeq(hi, 1, FirstOf(hi, {":"}) - 1))

NoPort == [kind |-> "None"]

PortError == [kind |-> "ValueError"]

Port(n) == [kind |-> "int", v |-> n]

\* parsed.port: None without a port, ValueError for a port that is not a
\* number in 0..65535
port(parsed) ==
    LET hi == HostInfo(parsed.netloc)
        c  == FirstOf(hi, {":"})
        ps == From(hi, c + 1)
    IN  IF c > Len(hi) \/ ps = <<>> THEN NoPort
        ELSE IF ~AllDigits(ps) THEN PortError
        ELSE IF DigitsVal(ps) > 65535 THEN PortError
        ELSE Port(DigitsVal(ps))

\* parsed.port or 80
PortOr80(pt) == IF pt = NoPort \/ pt = Port(0) THEN 80 ELSE pt.v

\* one octet of a dotted quad: 1 to 3 digits, at most 255, no leading zero
IsOctet(o) ==
    /\ Len(o) \in 1..3
    /\ AllDigits(o)
    /\ DigitsVal(o) <= 255
    /\ (Len(o) > 1 => o[1] # "0")

\* ipaddress.IPv4Address(ip) does not raise
IsIPv4(ip) ==
    LET os == Split(ip, ".")
    IN  Len(os) = 4 /\ \A i \in 1..4 : IsOctet(os[i])

\* the four octets of a valid address, as numbers
Octets(ip) == [i \in 1..4 |-> DigitsVal(Split(ip, ".")[i])]

\* str() of the address with octets o
IPStr(o) == NatStr(o[1]) \o <<".">> \o NatStr(o[2]) \o <<".">> \o NatStr(o[3]) \o <<".">> \o NatStr(o[4])

\* IPv4Network(f"{ip}/24", strict=False).network_address + r
NetworkPlus(ip, r) == [Octets(ip) EXCEPT ![4] = r]

(***************************************************************************)
(* String literals of the program                                          *)
(***************************************************************************)
NA == <<"N", "/", "A">>

UnknownStr == <<"U","n","k","n","o","w","n">>

\* InsecamScraper.__init__: self.base_url
base_url == <<"h","t","t","p",":","/","/","w","w","w",".","i","n","s","e","c","a","m",".","o","r","g">>

(***************************************************************************)
(* Detail Extractor and Validator: InsecamScraper.extract_camera_details   *)
(***************************************************************************)
\* what details_div.find(string=...) / find_next(...) can give for a label:
\* no label, a label with no following value element, or the element's text
NoLabel == <<"NoLabel">>
NoValue == <<"NoValue">>

\* get_detail(text): "N/A" when the label or its value element is missing,
\* else the stripped text of the value element
get_detail(page, label) ==
    IF page.fields[label] \in {NoLabel, NoValue}
    THEN NA
    ELSE Strip(page.fields[label])

\* if all(v != "N/A" for v in [lat, lon, country, city])
RequiredPresent_NoCity(lat, lon, country, city) ==
    \A v \in {lat, lon, country} : v # NA

RequiredPresent(lat, lon, country, city) ==
    \A v \in {lat, lon, country, city} : v # NA

\* if -90 <= lat_float <= 90 and -180 <= lon_float <= 180
CoordsInRange_LonUnchecked(lat_float, lon_float) ==
    FloatBetween(-90, lat_float, 90)

CoordsInRange(lat_float, lon_float) ==
    /\ FloatBetween(-90, lat_float, 90)
    /\ FloatBetween(-180, lon_float, 180)

\* the body of extract_camera_details after the page has been fetched
extract_camera_details(camera_url, page) ==
    IF page.fetch = "RequestException" THEN None
    ELSE IF page.fetch = "no_details_div" THEN None
    ELSE
      LET lat          == get_detail(page, "Latitude:")
          lon          == get_detail(page, "Longitude:")
          country      == get_detail(page, "Country:")
          city         == get_detail(page, "City:")
          region       == get_detail(page, "Region:")
          manufacturer == get_detail(page, "Manufacturer:")
          image_url    == IF page.image = NoValue THEN NA ELSE page.image
          lat_float    == ParseFloat(lat)
          lon_float    == ParseFloat(lon)
      IN  IF ~RequiredPresent(lat, lon, country, city) THEN None
          ELSE IF lat_float = ValueError \/ lon_float = ValueError THEN None
          ELSE IF ~CoordsInRange(lat_float, lon_float) THEN None
          ELSE Some(
               [latitude     |-> lat_float,
                longitude    |-> lon_float,
                country      |-> country,
                city         |-> city,
                region       |-> region,
                manufacturer |-> manufacturer,
                image_url    |-> image_url,
                page_url     |-> camera_url])

\* the raw field texts the detail source can hold
LatTexts ==
    { <<"9","0">>, <<"-","9","0">>, <<"9","0",".","0","0","1">>,
      <<"-","9","0",".","5">>, <<"9","1">>, <<"4","5",".","5">>,
      <<" ","1","2"," ">>, <<"n","a","n">>, <<"a","b","c">>, <<>>, NA }

LonTexts ==
    { <<"1","8","0">>, <<"-","1","8","0">>, <<"1","8","0",".","0","0","1">>,
      <<"-","1","8","1">>, <<"7">>, <<"i","n","f">>, <<"x">>, NA }

NameTexts ==
    { <<"J","a","p","a","n">>, <<" ","O","s","l","o"," ">>, <<>>, NA }

SampleLink == base_url \o <<"/","e","n","/","v","i","e","w","/","1","/">>

SampleImage == <<"h","t","t","p",":","/","/","2","0","3",".","0",".","1","1","3",".","5",
                 ":","8","0","/","c","a","m","_","1",".","c","g","i">>

DetailPages ==
    { [fetch |-> f, fields |-> fs, image |-> NoValue] :
        f \in {"RequestException", "no_details_div"},
        fs \in { [l \in {"Latitude:", "Longitude:", "Country:", "City:",
                         "Region:", "Manufacturer:"} |-> NoLabel] } }
    \cup
    { [fetch |-> "ok",
       fields |-> [l \in {"Latitude:", "Longitude:", "Country:", "City:",
                          "Region:", "Manufacturer:"} |->
                     CASE l = "Latitude:"  -> lat
                       [] l = "Longitude:" -> lon
                       [] l = "Country:"   -> country
                       [] l = "City:"      -> city
                       [] OTHER            -> NoLabel],
       image |-> img] :
        lat \in LatTexts \cup {NoLabel}, lon \in LonTexts \cup {NoValue},
        country \in NameTexts \cup {NoLabel}, city \in NameTexts \cup {NoValue},
        img \in {NoValue, SampleImage} }

ExtractIdle ==
    /\ detail_page = <<>>
    /\ extract_pc = "idle"
    /\ extract_result = None

ProbeIdle ==
    /\ probe_url = <<>>
    /\ probe_response = <<>>
    /\ provider_a = <<>>
    /\ provider_b = <<>>
    /\ probe_pc = "idle"
    /\ geo_calls = <<>>
    /\ geo_info = None
    /\ probe_result = None

GenIdle ==
    /\ base_camera = <<>>
    /\ variations = 0
    /\ gen_pc = "idle"
    /\ gen_result = {}

AnalyzeIdle ==
    /\ cameras = <<>>
    /\ analyze_pc = "idle"
    /\ patterns = <<>>

\* a file that does not exist
NoFile == [exists |-> FALSE, parseable |-> FALSE, records |-> <<>>]

ExpandIdle ==
    /\ existing_cameras = <<>>
    /\ target_new_cameras = 0
    /\ expander_workers = 0
    /\ test_urls = {}
    /\ future_to_url = {}
    /\ probe_queue = {}
    /\ probe_running = {}
    /\ probe_done = <<>>
    /\ new_cameras = <<>>
    /\ tested_count = 0
    /\ expansion_file = NoFile
    /\ expanded_file = NoFile
    /\ expand_pc = "idle"
    /\ expand_result = <<>>

ScrapeIdle ==
    /\ num_pages = 0
    /\ max_workers = 0
    /\ listing_source = <<>>
    /\ bad_pages = {}
    /\ raising_tasks = {}
    /\ page_num = 0
    /\ fetch_log = <<>>
    /\ all_camera_links = <<>>
    /\ queue = <<>>
    /\ running = {}
    /\ done = <<>>
    /\ camera_data = <<>>
    /\ processed_count = 0
    /\ scraped_count = 0
    /\ progress_log = <<>>
    /\ temp_file = NoFile
    /\ final_file = NoFile
    /\ scrape_pc = "idle"
    /\ scrape_result = <<>>

ExtractInit ==
    /\ detail_page \in DetailPages
    /\ extract_pc = "call"
    /\ extract_result = None
    /\ ProbeIdle
    /\ GenIdle
    /\ ScrapeIdle
    /\ AnalyzeIdle
    /\ ExpandIdle

\* one call extract_camera_details(SampleLink)
Extract ==
    /\ extract_pc = "call"
    /\ extract_pc' = "returned"
    /\ extract_result' = extract_camera_details(SampleLink, detail_page)
    /\ UNCHANGED <<detail_page, probeVars, genVars, scrapeVars, analyzeVars, expandVars>>

ExtractNext == Extract

SpecExtract == ExtractInit /\ [][ExtractNext]_vars

\* the four required raw fields of the page under extraction
RawLat == get_detail(detail_page, "Latitude:")
RawLon == get_detail(detail_page, "Longitude:")
RawCountry == get_detail(detail_page, "Country:")
RawCity == get_detail(detail_page, "City:")

\* C8: whenever at least one of latitude, longitude, country, city is the
\* sentinel "N/A", extract_camera_details returns None (no Record is built),
\* whatever the other fields hold.
C8_SentinelRejected ==
    (/\ extract_pc = "returned"
     /\ \E v \in {RawLat, RawLon, RawCountry, RawCity} : v = NA)
    => extract_result = None

\* C8 witness: only the city is missing, everything else is acceptable, and
\* the call has returned None.
C8_Witness ==
    /\ extract_pc = "returned"
    /\ detail_page.fetch = "ok"
    /\ RawCity = NA
    /\ RawCountry = <<"J","a","p","a","n">>
    /\ CoordsInRange(ParseFloat(RawLat), ParseFloat(RawLon))
    /\ extract_result = None

FourPresent ==
    /\ detail_page.fetch = "ok"
    /\ \A v \in {RawLat, RawLon, RawCountry, RawCity} : v # NA

IsNumber(x) == x.kind = "num"

\* C9: with all four required fields present and both coordinates parsing as
\* numbers, a latitude outside [-90,90] or a longitude outside [-180,180] is
\* rejected, and the boundary values -90, 90, -180, 180 are accepted (the
\* Record carries them).
C9_RangeChecked ==
    (/\ extract_pc = "returned"
     /\ FourPresent
     /\ IsNumber(ParseFloat(RawLat))
     /\ IsNumber(ParseFloat(RawLon)))
    =>
    LET lat == ParseFloat(RawLat).scaled
        lon == ParseFloat(RawLon).scaled
        one == Pow10(FracDigits)
    IN  /\ (lat < -90 * one \/ lat > 90 * one \/ lon < -180 * one \/ lon > 180 * one)
               => extract_result = None
        /\ (lat \in {-90 * one, 90 * one} /\ lon \in {-180 * one, 180 * one})
               => /\ extract_result # None
                  /\ extract_result[1].latitude = Num(lat)
                  /\ extract_result[1].longitude = Num(lon)

\* C9 witness: latitude on the boundary, longitude just outside its range,
\* country and city present: rejected.
C9_Witness ==
    /\ extract_pc = "returned"
    /\ FourPresent
    /\ RawLat = <<"9","0">>
    /\ RawLon = <<"1","8","0",".","0","0","1">>
    /\ extract_result = None

(***************************************************************************)
(* JSON values of the geolocation answers                                  *)
(***************************************************************************)
JNull == [kind |-> "null"]

JBool(b) == [kind |-> "bool", b |-> b]

JStr(t) == [kind |-> "str", s |-> t]

\* Python truthiness ("not data.get('error')")
Truthy(v) ==
    CASE v.kind = "null" -> FALSE
      [] v.kind = "bool" -> v.b
      [] v.kind = "num"  -> v.scaled # 0
      [] v.kind = "str"  -> v.s # <<>>

(***************************************************************************)
(* Geolocation Resolver: SmartCameraExpander.get_ip_geolocation            *)
(*                                                                         *)
(* A provider's answer is a transport exception or a response with a       *)
(* status code and a body; response.json() raises on a body that is not    *)
(* JSON, and data.get raises on JSON that is not an object.  The whole     *)
(* function body is one try block: any exception leaves through            *)
(* "except Exception: pass" to "return None".                              *)
(***************************************************************************)
Raises(answer) ==
    \/ answer.kind = "exception"
    \/ /\ answer.status_code = 200
       /\ answer.body.json \in {"invalid", "list"}

\* provider A (ipapi.co) gave a usable answer: status 200 and no error flag
UsableA(a) ==
    /\ ~Raises(a)
    /\ a.status_code = 200
    /\ ~Truthy(a.body.data["error"])

\* provider B (ip-api.com) gave a usable answer: status 200 and status "success"
UsableB(b) ==
    /\ ~Raises(b)
    /\ b.status_code = 200
    /\ b.body.data["status"] = JStr(<<"s","u","c","c","e","s","s">>)

GeoFromA(a) ==
    [lat     |-> a.body.data["latitude"],
     lon     |-> a.body.data["longitude"],
     country |-> a.body.data["country_name"],
     city    |-> a.body.data["city"],
     region  |-> a.body.data["region"]]

GeoFromB(b) ==
    [lat     |-> b.body.data["lat"],
     lon     |-> b.body.data["lon"],
     country |-> b.body.data["country"],
     city    |-> b.body.data["city"],
     region  |-> b.body.data["regionName"]]

\* get_ip_geolocation(ip_address): the providers queried, in order, and the
\* returned value
get_ip_geolocation(ip_address, a, b) ==
    IF Raises(a) THEN [calls |-> <<"A">>, result |-> None]
    ELSE IF UsableA(a) THEN [calls |-> <<"A">>, result |-> Some(GeoFromA(a))]
    ELSE IF Raises(b) THEN [calls |-> <<"A", "B">>, result |-> None]
    ELSE IF UsableB(b) THEN [calls |-> <<"A", "B">>, result |-> Some(GeoFromB(b))]
    ELSE [calls |-> <<"A", "B">>, result |-> None]

(***************************************************************************)
(* Probe: SmartCameraExpander.test_camera_url and detect_manufacturer      *)
(***************************************************************************)
detect_manufacturer(url) ==
    LET url_lower == StrLower(url)
    IN  IF Contains(url_lower, <<"a","x","i","s">>) \/ Contains(url_lower, <<"m","j","p","g","/","v","i","d","e","o">>)
        THEN JStr(<<"A","x","i","s">>)
        ELSE IF Contains(url_lower, <<"s","n","a","p","s","h","o","t","j","p","e","g">>) \/ Contains(url_lower, <<"c","g","i","-","b","i","n","/","c","a","m","e","r","a">>)
        THEN JStr(<<"P","a","n","a","s","o","n","i","c">>)
        ELSE IF Contains(url_lower, <<"g","e","t","o","n","e","s","h","o","t">>) THEN JStr(<<"C","a","n","o","n">>)
        ELSE IF Contains(url_lower, <<"o","n","e","s","h","o","t","i","m","a","g","e">>) THEN JStr(<<"S","o","n","y">>)
        ELSE IF Contains(url_lower, <<"c","a","m","_">>) /\ Contains(url_lower, <<".","c","g","i">>)
        THEN JStr(<<"W","e","b","c","a","m","X","P">>)
        ELSE IF Contains(url_lower, <<"t","m","p","f","s","/","a","u","t","o",".","j","p","g">>) THEN JStr(<<"F","D","T">>)
        ELSE JStr(UnknownStr)

\* any(media_type in content_type for media_type in
\*     ['image/', 'video/', 'multipart/x-mixed-replace'])
IsCameraContent_AnyType(content_type) == TRUE

IsCameraContent(content_type) ==
    \E media_type \in {<<"i","m","a","g","e","/">>, <<"v","i","d","e","o","/">>, <<"m","u","l","t","i","p","a","r","t","/","x","-","m","i","x","e","d","-","r","e","p","l","a","c","e">>} :
        Contains(content_type, media_type)

\* response.status_code == 200
StatusOK(status_code) == status_code = 200

\* the camera_info dict of test_camera_url
camera_info(url, geo) ==
    LET parsed == urlparse(url)
        ip     == hostname(parsed)
    IN  [latitude     |-> geo.lat,
         longitude    |-> geo.lon,
         country      |-> geo.country,
         city         |-> geo.city,
         region       |-> geo.region,
         manufacturer |-> detect_manufacturer(url),
         image_url    |-> url,
         page_url     |-> <<"h","t","t","p",":","/","/">> \o ip \o <<":">> \o NatStr(PortOr80(port(parsed))),
         source       |-> <<"s","m","a","r","t","_","e","x","p","a","n","s","i","o","n">>,
         ip_address   |-> ip]

\* test_camera_url(url): the providers queried and the returned value.  Every
\* exception (the request's, urlparse's, parsed.port's) ends in "return None".
NotProbed == [calls |-> <<>>, geo |-> None, result |-> None]

test_camera_url(url, response, a, b) ==
    IF response.kind = "exception" THEN NotProbed
    ELSE IF ~StatusOK(response.status_code) THEN NotProbed
    ELSE IF ~IsCameraContent(StrLower(response.content_type)) THEN NotProbed
    ELSE IF urlparse(url).error THEN NotProbed
    ELSE
      LET geo == get_ip_geolocation(hostname(urlparse(url)), a, b)
      IN  IF geo.result = None
          THEN [calls |-> geo.calls, geo |-> None, result |-> None]
          ELSE IF port(urlparse(url)) = PortError
               THEN [calls |-> geo.calls, geo |-> geo.result, result |-> None]
          ELSE [calls |-> geo.calls, geo |-> geo.result,
                result |-> Some(camera_info(url, geo.result[1]))]

\* the candidate URLs and the answers the probed host and the providers can give
ProbeUrls ==
    { <<"h","t","t","p",":","/","/","2","0","3",".","0",".","1","1","3",".","7",":","8","0","/","c","a","m","_","1",".","c","g","i">>,
      <<"h","t","t","p",":","/","/","2","0","3",".","0",".","1","1","3",".","7",":","8","0","8","0","/","m","j","p","g","/","v","i","d","e","o",".","m","j","p","g">> }

CameraContentTypes ==
    { <<"i","m","a","g","e","/","j","p","e","g">>, <<"I","m","a","g","e","/","J","P","E","G">>, <<"v","i","d","e","o","/","m","p","4">>,
      <<"m","u","l","t","i","p","a","r","t","/","x","-","m","i","x","e","d","-","r","e","p","l","a","c","e",";"," ","b","o","u","n","d","a","r","y","=","x">> }

OtherContentTypes ==
    { <<>>, <<"t","e","x","t","/","h","t","m","l">>, <<"t","e","x","t","/","h","t","m","l",";"," ","c","h","a","r","s","e","t","=","u","t","f","-","8">>, <<"a","p","p","l","i","c","a","t","i","o","n","/","j","s","o","n">> }

ProbeResponses ==
    { [kind |-> "exception"] }
    \cup
    { [kind |-> "response", status_code |-> st, content_type |-> ct] :
        st \in {200, 206, 404}, ct \in CameraContentTypes \cup OtherContentTypes }

Tokyo == JStr(<<"T","o","k","y","o">>)

Japan == JStr(<<"J","a","p","a","n">>)

SampleLat == Num(35 * Pow10(FracDigits))

SampleLon == Num(139 * Pow10(FracDigits))

NoBody == [json |-> "invalid"]

ProviderAAnswers ==
    { [kind |-> "exception"],
      [kind |-> "response", status_code |-> 429, body |-> NoBody],
      [kind |-> "response", status_code |-> 200, body |-> NoBody],
      [kind |-> "response", status_code |-> 200, body |-> [json |-> "list"]] }
    \cup
    { [kind |-> "response", status_code |-> 200,
       body |-> [json |-> "dict",
                 data |-> [k \in {"error", "latitude", "longitude", "country_name",
                                  "city", "region"} |->
                             CASE k = "error"        -> err
                               [] k = "latitude"     -> lat
                               [] k = "longitude"    -> SampleLon
                               [] k = "country_name" -> country
                               [] k = "city"         -> city
                               [] OTHER              -> Tokyo]]] :
        err \in {JNull, JBool(TRUE)}, lat \in {JNull, SampleLat},
        country \in {JNull, Japan}, city \in {Tokyo, JStr(<<>>)} }

ProviderBAnswers ==
    { [kind |-> "exception"],
      [kind |-> "response", status_code |-> 500, body |-> NoBody],
      [kind |-> "response", status_code |-> 200, body |-> NoBody] }
    \cup
    { [kind |-> "response", status_code |-> 200,
       body |-> [json |-> "dict",
                 data |-> [k \in {"status", "lat", "lon", "country", "city",
                                  "regionName"} |->
                             CASE k = "status"  -> st
                               [] k = "lat"     -> lat
                               [] k = "lon"     -> SampleLon
                               [] k = "country" -> Japan
                               [] OTHER         -> Tokyo]]] :
        st \in {JStr(<<"s","u","c","c","e","s","s">>), JStr(<<"f","a","i","l">>)}, lat \in {JNull, SampleLat} }

ProbeInit ==
    /\ probe_url \in ProbeUrls
    /\ probe_response \in ProbeResponses
    /\ provider_a \in ProviderAAnswers
    /\ provider_b \in ProviderBAnswers
    /\ probe_pc = "call"
    /\ geo_calls = <<>>
    /\ geo_info = None
    /\ probe_result = None
    /\ ExtractIdle
    /\ GenIdle
    /\ ScrapeIdle
    /\ AnalyzeIdle
    /\ ExpandIdle

\* one call test_camera_url(probe_url)
TestCameraUrl ==
    /\ probe_pc = "call"
    /\ LET out == test_camera_url(probe_url, probe_response, provider_a, provider_b)
       IN  /\ geo_calls' = out.calls
           /\ geo_info' = out.geo
           /\ probe_result' = out.result
    /\ probe_pc' = "returned"
    /\ UNCHANGED <<probe_url, probe_response, provider_a, provider_b, extractVars,
                   genVars, scrapeVars, analyzeVars, expandVars>>

ProbeNext == TestCameraUrl

SpecProbe == ProbeInit /\ [][ProbeNext]_vars

\* Validator acceptance of a Record built from a geolocation answer: numeric
\* coordinates in range, country and city non-empty and not a sentinel
InRange(v, bound) ==
    /\ v.kind = "num"
    /\ -bound * Pow10(FracDigits) <= v.scaled
    /\ v.scaled <= bound * Pow10(FracDigits)

RealName(v) == v.kind = "str" /\ v.s \notin {<<>>, NA, UnknownStr}

PassedValidator(r) ==
    /\ InRange(r.latitude, 90)
    /\ InRange(r.longitude, 180)
    /\ RealName(r.country)
    /\ RealName(r.city)

\* C1: every Record returned to a caller has passed Validator acceptance; in
\* particular the Record test_camera_url builds from a geolocation answer has
\* non-null coordinates in range and a real country and city.
C1_ProbeRecordValidated ==
    (probe_pc = "returned" /\ probe_result # None)
    => PassedValidator(probe_result[1])

\* provider A failed: exception, non-success status, unparseable or
\* non-object body, or an error-flagged answer
FailedA ==
    \/ provider_a.kind = "exception"
    \/ provider_a.status_code # 200
    \/ provider_a.body.json # "dict"
    \/ Truthy(provider_a.body.data["error"])

\* C2: whenever provider A fails in any way the Resolver queries provider B
\* before returning none, and it returns none only after querying both.
C2_FallbackToB ==
    (probe_pc = "returned" /\ geo_calls # <<>>)
    => /\ FailedA => geo_calls = <<"A", "B">>
       /\ geo_info = None => geo_calls = <<"A", "B">>

\* C10: a Record is returned only for status 200 with an image, video or
\* multipart-replace content type; text/html yields none without a Resolver
\* call for every status code; status 200 with image/jpeg always reaches the
\* Resolver.
C10_ProbeAcceptance ==
    probe_pc = "returned" =>
      /\ probe_result # None =>
            /\ probe_response.kind = "response"
            /\ probe_response.status_code = 200
            /\ probe_response.content_type \in CameraContentTypes
      /\ (/\ probe_response.kind = "response"
          /\ probe_response.content_type \in {<<"t","e","x","t","/","h","t","m","l">>, <<"t","e","x","t","/","h","t","m","l",";"," ","c","h","a","r","s","e","t","=","u","t","f","-","8">>})
            => probe_result = None /\ geo_calls = <<>>
      /\ (/\ probe_response.kind = "response"
          /\ probe_response.status_code = 200
          /\ probe_response.content_type = <<"i","m","a","g","e","/","j","p","e","g">>)
            => geo_calls # <<>> /\ geo_calls[1] = "A"

\* C10 witness: status 200 with content type text/html has returned none and
\* no provider was queried.
C10_Witness ==
    /\ probe_pc = "returned"
    /\ probe_response.kind = "response"
    /\ probe_response.status_code = 200
    /\ probe_response.content_type = <<"t","e","x","t","/","h","t","m","l">>
    /\ probe_result = None
    /\ geo_calls = <<>>

(***************************************************************************)
(* Candidate Generator: SmartCameraExpander.generate_path_variations and   *)
(* generate_similar_urls.  The values random.randint returns are arguments *)
(* (counter for randint(1000, 9999), rs for the randint(1, 254) of each    *)
(* loop iteration).                                                        *)
(***************************************************************************)
\* the variants of one convention: base_path.replace(old, new) for each pair,
\* when the token is in base_path
Variants(base_path, token, pairs) ==
    IF Contains(base_path, token)
    THEN [i \in 1..Len(pairs) |-> Replace(base_path, pairs[i][1], pairs[i][2])]
    ELSE <<>>

generate_path_variations(base_path, counter) ==
    Variants(base_path, <<"R","e","s","o","l","u","t","i","o","n","=">>,
             << <<<<"R","e","s","o","l","u","t","i","o","n","=","6","4","0","x","4","8","0">>, <<"R","e","s","o","l","u","t","i","o","n","=","3","2","0","x","2","4","0">>>>,
                <<<<"R","e","s","o","l","u","t","i","o","n","=","6","4","0","x","4","8","0">>, <<"R","e","s","o","l","u","t","i","o","n","=","8","0","0","x","6","0","0">>>>,
                <<<<"R","e","s","o","l","u","t","i","o","n","=","6","4","0","x","4","8","0">>, <<"R","e","s","o","l","u","t","i","o","n","=","1","0","2","4","x","7","6","8">>>> >>)
    \o Variants(base_path, <<"Q","u","a","l","i","t","y","=">>,
             << <<<<"Q","u","a","l","i","t","y","=","C","l","a","r","i","t","y">>, <<"Q","u","a","l","i","t","y","=","S","t","a","n","d","a","r","d">>>>,
                <<<<"Q","u","a","l","i","t","y","=","S","t","a","n","d","a","r","d">>, <<"Q","u","a","l","i","t","y","=","C","l","a","r","i","t","y">>>> >>)
    \o Variants(base_path, <<"r","e","s","o","l","u","t","i","o","n","=">>,
             << <<<<"r","e","s","o","l","u","t","i","o","n","=","6","4","0">>, <<"r","e","s","o","l","u","t","i","o","n","=","3","2","0">>>>,
                <<<<"r","e","s","o","l","u","t","i","o","n","=","6","4","0">>, <<"r","e","s","o","l","u","t","i","o","n","=","8","0","0">>>> >>)
    \o Variants(base_path, <<"c","a","m","_","1">>,
             [i \in 1..4 |-> <<<<"c","a","m","_","1">>, <<"c","a","m","_">> \o NatStr(i + 1)>>])
    \o Variants(base_path, <<"c","h","a","n","n","e","l","=","1">>,
             [i \in 1..3 |-> <<<<"c","h","a","n","n","e","l","=","1">>, <<"c","h","a","n","n","e","l","=">> \o NatStr(i + 1)>>])
    \o Variants(base_path, <<"C","O","U","N","T","E","R">>,
             << <<<<"C","O","U","N","T","E","R">>, NatStr(counter)>>, <<<<"C","O","U","N","T","E","R">>, <<>> >> >>)

\* f"http://{ip}:{port}{path}"
HttpUrl(ip, portnum, path) == <<"h","t","t","p",":","/","/">> \o ip \o <<":">> \o NatStr(portnum) \o path

\* if random_ip != base_ip
NotSeedAddress_Unchecked(random_ip, base_ip) == TRUE

NotSeedAddress(random_ip, base_ip) == random_ip # base_ip

\* the URLs one iteration of the address loop appends, for the drawn octet r
AddressCandidates(base_ip, base_port, base_path, r) ==
    LET random_ip == IPStr(NetworkPlus(base_ip, r))
    IN  IF NotSeedAddress(random_ip, base_ip)
        THEN {HttpUrl(random_ip, base_port, base_path)}
             \cup (IF base_port = 80
                   THEN {HttpUrl(random_ip, alt_port, base_path) :
                            alt_port \in {8080, 8081, 8888}}
                   ELSE {})
        ELSE {}

\* the URLs the path block appends: path_variations[:10] on the seed's own
\* address and port
PathCandidates(base_ip, base_port, base_path, counter) ==
    LET pv == generate_path_variations(base_path, counter)
    IN  IF base_path = <<>> THEN {}
        ELSE {HttpUrl(base_ip, base_port, pv[i]) : i \in 1..Len(pv) \cap 1..10}

\* generate_similar_urls(base_camera, variations): an IPv4Address error only
\* skips the address loop (the inner "except: pass"); a urlparse or port
\* error leaves through the outer except with urls still empty
generate_similar_urls(camera, n, rs, counter) ==
    LET base    == camera.image_url
        parsed  == urlparse(base)
        base_ip == hostname(parsed)
    IN  IF base = <<>> THEN {}
        ELSE IF parsed.error THEN {}
        ELSE IF base_ip = <<>> THEN {}
        ELSE IF port(parsed) = PortError THEN {}
        ELSE
          LET base_port == PortOr80(port(parsed))
          IN  (IF IsIPv4(base_ip)
               THEN UNION {AddressCandidates(base_ip, base_port, parsed.path, r) :
                              r \in {rs[i] : i \in 1..n}}
               ELSE {})
              \cup PathCandidates(base_ip, base_port, parsed.path, counter)

\* the seed media URLs
SeedUrls ==
    { <<"h","t","t","p",":","/","/","2","0","3",".","0",".","1","1","3",".","5",":","8","0","/","c","a","m","_","1",".","c","g","i","?","R","e","s","o","l","u","t","i","o","n","=","6","4","0","x","4","8","0">>,
      <<"h","t","t","p",":","/","/","2","0","3",".","0",".","1","1","3",".","5","/","m","j","p","g","/","v","i","d","e","o",".","m","j","p","g">>,
      <<"h","t","t","p",":","/","/","1","9","8",".","5","1",".","1","0","0",".","2","5","4",":","8","0","8","0","/","C","O","U","N","T","E","R","/","c","h","a","n","n","e","l","=","1">>,
      <<"h","t","t","p",":","/","/","2","0","3",".","0",".","1","1","3",".","5",":","8","0","/","R","e","s","o","l","u","t","i","o","n","=","8","0","0","x","6","0","0","/","s","n","a","p",".","j","p","g">>,
      <<"h","t","t","p",":","/","/","1","9","2",".","0",".","2",".","1",":","8","0","8","1","/","Q","u","a","l","i","t","y","=","C","l","a","r","i","t","y","/","r","e","s","o","l","u","t","i","o","n","=","6","4","0">>,
      <<"h","t","t","p",":","/","/","c","a","m",".","e","x","a","m","p","l","e",".","c","o","m","/","c","a","m","_","1",".","c","g","i">>,
      <<"h","t","t","p",":","/","/","c","a","m",".","e","x","a","m","p","l","e",".","c","o","m","/","v","i","e","w">>,
      <<"h","t","t","p",":","/","/","2","0","3",".","0",".","1","1","3",".","5",":","a","b","c","/","c","a","m","_","1",".","c","g","i">>,
      <<"h","t","t","p",":","/","/","[","2","0","3",".","0",".","1","1","3",".","5","/","c","a","m","_","1",".","c","g","i">>,
      NA,
      <<>> }

\* values of random.randint(1, 254): both ends, the seeds' own last octets
\* and a neighbour
RandomOctets == {1, 5, 6, 254}

\* values of random.randint(1000, 9999)
RandomCounters == {1000, 9999}

MaxVariations == 2

GenInit ==
    /\ base_camera \in {[image_url |-> u] : u \in SeedUrls}
    /\ variations \in 0..MaxVariations
    /\ gen_pc = "call"
    /\ gen_result = {}
    /\ ExtractIdle
    /\ ProbeIdle
    /\ ScrapeIdle
    /\ AnalyzeIdle
    /\ ExpandIdle

\* one call generate_similar_urls(base_camera, variations)
GenerateSimilarUrls ==
    /\ gen_pc = "call"
    /\ \E rs \in [1..variations -> RandomOctets], counter \in RandomCounters :
          gen_result' = generate_similar_urls(base_camera, variations, rs, counter)
    /\ gen_pc' = "returned"
    /\ UNCHANGED <<base_camera, variations, extractVars, probeVars, scrapeVars, analyzeVars,
                   expandVars>>

GenNext == GenerateSimilarUrls

SpecGen == GenInit /\ [][GenNext]_vars

\* the seed's media URL is a well-formed URL with a numeric IPv4 host
SeedHasIPv4Host ==
    LET parsed == urlparse(base_camera.image_url)
    IN  /\ base_camera.image_url # <<>>
        /\ ~parsed.error
        /\ port(parsed) # PortError
        /\ IsIPv4(hostname(parsed))

SeedHost == hostname(urlparse(base_camera.image_url))

SameBlock(h, a) ==
    /\ IsIPv4(h)
    /\ \A i \in 1..3 : Octets(h)[i] = Octets(a)[i]

\* C3 as stated: every returned candidate, the path-mutation candidates
\* included, has a host in the seed's /24 block that differs from the seed's
\* address.
C3_AllCandidatesOffSeed ==
    (gen_pc = "returned" /\ SeedHasIPv4Host) =>
      \A u \in gen_result :
         /\ SameBlock(hostname(urlparse(u)), SeedHost)
         /\ hostname(urlparse(u)) # SeedHost

\* C3 amended: every returned candidate has a host in the seed's /24 block;
\* a candidate on the seed's own address is a path-mutation candidate (seed
\* address, seed port, a path of generate_path_variations), so every
\* address-mutation candidate differs from the seed's address.
C3_BlockAndPathOnSeed ==
    (gen_pc = "returned" /\ SeedHasIPv4Host) =>
      \A u \in gen_result :
         /\ SameBlock(hostname(urlparse(u)), SeedHost)
         /\ hostname(urlparse(u)) = SeedHost =>
              /\ port(urlparse(u)) = Port(PortOr80(port(urlparse(base_camera.image_url))))
              /\ \E c \in RandomCounters :
                    urlparse(u).path \in
                       {generate_path_variations(urlparse(base_camera.image_url).path, c)[i] :
                           i \in 1..Len(generate_path_variations(
                                           urlparse(base_camera.image_url).path, c))}

\* C3 witness: the seed http://203.0.113.5:80/cam_1.cgi?... with at least one
\* variation has produced a neighbour on an alternate port and a path variant
\* on the seed's own address.
C3_Witness ==
    /\ gen_pc = "returned"
    /\ variations >= 1
    /\ base_camera.image_url = <<"h","t","t","p",":","/","/","2","0","3",".","0",".","1","1","3",".","5",":","8","0","/","c","a","m","_","1",".","c","g","i","?","R","e","s","o","l","u","t","i","o","n","=","6","4","0","x","4","8","0">>
    /\ <<"h","t","t","p",":","/","/","2","0","3",".","0",".","1","1","3",".","6",":","8","0","8","0","/","c","a","m","_","1",".","c","g","i">> \in gen_result
    /\ <<"h","t","t","p",":","/","/","2","0","3",".","0",".","1","1","3",".","5",":","8","0","/","c","a","m","_","2",".","c","g","i">> \in gen_result

\* C4: without a well-formed media URL with a numeric IPv4 host (missing URL,
\* malformed URL, DNS name) the Generator returns nothing, whatever the path.
C4_EmptyWithoutIPv4Host ==
    (gen_pc = "returned" /\ ~SeedHasIPv4Host) => gen_result = {}

\* the seed of the second end-to-end scenario
ScenarioSeed == <<"h","t","t","p",":","/","/","2","0","3",".","0",".","1","1","3",".","5",":","8","0","/","c","a","m","_","1",".","c","g","i","?","R","e","s","o","l","u","t","i","o","n","=","6","4","0","x","4","8","0">>

\* C11: for the seed http://203.0.113.5:80/cam_1.cgi?Resolution=640x480 and a
\* variation count of at least 1, whatever the random draws, the result holds
\* a candidate on port 8080, 8081 or 8888 and a candidate whose path contains
\* cam_2.cgi.
C11_AltPortAndCam2 ==
    (/\ gen_pc = "returned"
     /\ base_camera.image_url = ScenarioSeed
     /\ variations >= 1)
    => /\ \E u \in gen_result :
             port(urlparse(u)) \in {Port(8080), Port(8081), Port(8888)}
       /\ \E u \in gen_result :
             Contains(urlparse(u).path, <<"c","a","m","_","2",".","c","g","i">>)

\* C11 witness: every draw of the address loop gave the seed's own last
\* octet, so the result holds the path variants alone.
C11_Witness ==
    /\ gen_pc = "returned"
    /\ base_camera.image_url = ScenarioSeed
    /\ variations >= 1
    /\ gen_result = {HttpUrl(<<"2","0","3",".","0",".","1","1","3",".","5">>, 80,
                             <<"/","c","a","m","_">> \o NatStr(i) \o <<".","c","g","i">>) :
                        i \in 2..5}

\* C18: every path of generate_path_variations differs from the base path it
\* was derived from, so no returned candidate has the seed's own address,
\* port and path.
C18_VariantsDifferFromSeed ==
    LET parsed == urlparse(base_camera.image_url)
    IN  (/\ gen_pc = "returned"
         /\ base_camera.image_url # <<>>
         /\ ~parsed.error
         /\ port(parsed) # PortError)
        => /\ \A c \in RandomCounters :
                 \A i \in 1..Len(generate_path_variations(parsed.path, c)) :
                    generate_path_variations(parsed.path, c)[i] # parsed.path
           /\ \A u \in gen_result :
                 ~ /\ hostname(urlparse(u)) = hostname(parsed)
                   /\ port(urlparse(u)) = Port(PortOr80(port(parsed)))
                   /\ urlparse(u).path = parsed.path

\* C18 witness: for the seed http://203.0.113.5:80/Resolution=800x600/snap.jpg
\* and no address variation the result is the seed's own URL alone.
C18_Witness ==
    /\ gen_pc = "returned"
    /\ variations = 0
    /\ base_camera.image_url = <<"h","t","t","p",":","/","/","2","0","3",".","0",".","1","1","3",".","5",":","8","0","/","R","e","s","o","l","u","t","i","o","n","=","8","0","0","x","6","0","0","/","s","n","a","p",".","j","p","g">>
    /\ gen_result = {base_camera.image_url}

(***************************************************************************)
(* Discovery run: InsecamScraper.get_camera_links, scrape_cameras and the  *)
(* handlers of main around it.                                             *)
(*                                                                         *)
(* The pool runs at most max_workers tasks at a time and takes queued      *)
(* tasks in submission order; a worker ends its task on its own, and       *)
(* as_completed hands the completed futures to the loop in the order of    *)
(* their completion.  list(set(...)) is taken in first-occurrence order.   *)
(* A file write is two steps, open(..., 'w') (the file exists and is       *)
(* empty) and json.dump (the file holds the list), so that an interrupt    *)
(* can fall between them.                                                  *)
(***************************************************************************)
Href(i) == <<"/","e","n","/","v","i","e","w","/">> \o NatStr(i) \o <<"/">>

\* get_camera_links(page_num), given what the fetch of the page gave
get_camera_links(outcome) ==
    IF outcome.kind = "RequestException" THEN <<>>
    ELSE [i \in 1..Len(outcome.hrefs) |-> base_url \o outcome.hrefs[i]]

\* list(set(links)), in first-occurrence order
Dedupe(links) ==
    LET firsts == {i \in 1..Len(links) : \A j \in 1..(i - 1) : links[j] # links[i]}
        rank   == [i \in firsts |-> Cardinality({j \in firsts : j <= i})]
    IN  [k \in 1..Cardinality(firsts) |-> links[CHOOSE i \in firsts : rank[i] = k]]

\* the detail source: the page of a link (a complete page unless the link is
\* in bad_pages, whose pages show no city)
DetailOf(url) ==
    [fetch  |-> "ok",
     fields |-> [l \in {"Latitude:", "Longitude:", "Country:", "City:",
                        "Region:", "Manufacturer:"} |->
                   CASE l = "Latitude:"  -> <<"4","5",".","5">>
                     [] l = "Longitude:" -> <<"-","7">>
                     [] l = "Country:"   -> <<"J","a","p","a","n">>
                     [] l = "City:"      -> IF url \in bad_pages THEN NoValue ELSE <<"O","s","l","o">>
                     [] OTHER            -> NoLabel],
     image  |-> NoValue]

\* progress is printed every 50 processed, a checkpoint written every 100 accepted
ProgressEvery == 50

CheckpointEvery == 100

MaxPages == 2

MaxWorkers == 3

\* the number of links of the long listing page
BigListing == 200

\* the most completed futures the loop lets wait before it takes one
MaxPending == 2

\* what the fetch of one listing page can give
SmallPageOutcomes ==
    { [kind |-> "RequestException"] }
    \cup
    { [kind |-> "ok", hrefs |-> h] :
        h \in { <<>>, <<Href(1)>>, <<Href(1), Href(2)>>, <<Href(2), Href(3)>>,
                <<Href(1), Href(2), Href(3)>> } }

BigPageOutcome == [kind |-> "ok", hrefs |-> [i \in 1..BigListing |-> Href(i)]]

ScrapeInit ==
    /\ \/ /\ num_pages \in 1..MaxPages
          /\ max_workers \in 1..MaxWorkers
          /\ listing_source \in [1..num_pages -> SmallPageOutcomes]
          /\ bad_pages \in SUBSET {base_url \o Href(i) : i \in 1..3}
          /\ raising_tasks \in {{}, {base_url \o Href(2)}}
       \/ /\ num_pages = 1
          /\ max_workers = 1
          /\ listing_source = <<BigPageOutcome>>
          /\ bad_pages \in {{}, {base_url \o Href(2)}, {base_url \o Href(ProgressEvery)}}
          /\ raising_tasks = {}
    /\ page_num = 1
    /\ fetch_log = <<>>
    /\ all_camera_links = <<>>
    /\ queue = <<>>
    /\ running = {}
    /\ done = <<>>
    /\ camera_data = <<>>
    /\ processed_count = 0
    /\ scraped_count = 0
    /\ progress_log = <<>>
    /\ temp_file = NoFile
    /\ final_file = NoFile
    /\ scrape_pc = "harvest"
    /\ scrape_result = <<>>
    /\ ExtractIdle
    /\ ProbeIdle
    /\ GenIdle
    /\ AnalyzeIdle
    /\ ExpandIdle

scrapeInputs == <<num_pages, max_workers, listing_source, bad_pages, raising_tasks>>

\* one iteration of "for page_num in range(1, self.num_pages + 1)"
HarvestPage ==
    /\ scrape_pc = "harvest"
    /\ page_num <= num_pages
    /\ fetch_log' = Append(fetch_log, page_num)
    /\ all_camera_links' = all_camera_links \o get_camera_links(listing_source[page_num])
    /\ page_num' = page_num + 1
    /\ UNCHANGED <<scrapeInputs, queue, running, done, camera_data, processed_count,
                   scraped_count, progress_log, temp_file, final_file, scrape_pc,
                   scrape_result, extractVars, probeVars, genVars, analyzeVars, expandVars>>

\* the end of the harvest loop: remove duplicates, submit every link to the pool
SubmitAll ==
    /\ scrape_pc = "harvest"
    /\ page_num > num_pages
    /\ LET links == Dedupe(all_camera_links)
           n     == IF Len(links) < max_workers THEN Len(links) ELSE max_workers
       IN  /\ all_camera_links' = links
           /\ running' = {links[i] : i \in 1..n}
           /\ queue' = SubSeq(links, n + 1, Len(links))
    /\ scrape_pc' = "collect"
    /\ UNCHANGED <<scrapeInputs, page_num, fetch_log, done, camera_data, processed_count,
                   scraped_count, progress_log, temp_file, final_file, scrape_result,
                   extractVars, probeVars, genVars, analyzeVars, expandVars>>

\* what a worker does to camera_data while it runs extract_camera_details:
\* nothing, the function only returns its result
WorkerEffect_Appends(data, value) ==
    IF value # None THEN Append(data, value[1]) ELSE data

WorkerEffect(data, value) == data

\* a worker ends the task of url: the future holds the returned value (or the
\* exception), and the worker takes the next queued task
WorkerFinish(url) ==
    /\ scrape_pc \in {"collect", "checkpoint_open", "checkpoint_dump"}
    /\ url \in running
    /\ Len(done) < MaxPending
    /\ running' = (running \ {url}) \cup (IF queue = <<>> THEN {} ELSE {Head(queue)})
    /\ queue' = IF queue = <<>> THEN <<>> ELSE Tail(queue)
    /\ LET value == IF url \in raising_tasks THEN None
                    ELSE extract_camera_details(url, DetailOf(url))
       IN  /\ done' = Append(done, [url |-> url, raised |-> url \in raising_tasks,
                                     value |-> value])
           /\ camera_data' = WorkerEffect(camera_data, value)
    /\ UNCHANGED <<scrapeInputs, page_num, fetch_log, all_camera_links, processed_count,
                   scraped_count, progress_log, temp_file, final_file, scrape_pc,
                   scrape_result, extractVars, probeVars, genVars, analyzeVars, expandVars>>

\* "processed_count += 1" stands before the try: every future the loop takes
\* is counted
CountsAsProcessed_OnlyReturned(future) == ~future.raised

CountsAsProcessed(future) == TRUE

\* if self.scraped_count % 100 == 0
CheckpointDue_Never(count) == FALSE

CheckpointDue(count) == count % CheckpointEvery = 0

\* one iteration of "for future in as_completed(future_to_url)", up to the
\* checkpoint's open(); a raising future.result() goes to "except Exception"
CollectResult ==
    /\ scrape_pc = "collect"
    /\ done # <<>>
    /\ done' = Tail(done)
    /\ processed_count' = processed_count + (IF CountsAsProcessed(Head(done)) THEN 1 ELSE 0)
    /\ IF ~Head(done).raised /\ Head(done).value # None
       THEN /\ camera_data' = Append(camera_data, Head(done).value[1])
            /\ scraped_count' = scraped_count + 1
            /\ progress_log' =
                  IF processed_count' % ProgressEvery = 0
                  THEN Append(progress_log, <<processed_count', scraped_count'>>)
                  ELSE progress_log
            /\ scrape_pc' = IF CheckpointDue(scraped_count')
                            THEN "checkpoint_open" ELSE "collect"
       ELSE UNCHANGED <<camera_data, scraped_count, progress_log, scrape_pc>>
    /\ UNCHANGED <<scrapeInputs, page_num, fetch_log, all_camera_links, queue, running,
                   temp_file, final_file, scrape_result, extractVars, probeVars, genVars,
                   analyzeVars, expandVars>>

\* open('camera_data_temp.json', 'w')
CheckpointOpen ==
    /\ scrape_pc = "checkpoint_open"
    /\ temp_file' = [exists |-> TRUE, parseable |-> FALSE, records |-> <<>>]
    /\ scrape_pc' = "checkpoint_dump"
    /\ UNCHANGED <<scrapeInputs, page_num, fetch_log, all_camera_links, queue, running,
                   done, camera_data, processed_count, scraped_count, progress_log,
                   final_file, scrape_result, extractVars, probeVars, genVars, analyzeVars,
                   expandVars>>

\* json.dump(camera_data, f) and the close of the file
CheckpointDump ==
    /\ scrape_pc = "checkpoint_dump"
    /\ temp_file' = [exists |-> TRUE, parseable |-> TRUE, records |-> camera_data]
    /\ scrape_pc' = "collect"
    /\ UNCHANGED <<scrapeInputs, page_num, fetch_log, all_camera_links, queue, running,
                   done, camera_data, processed_count, scraped_count, progress_log,
                   final_file, scrape_result, extractVars, probeVars, genVars, analyzeVars,
                   expandVars>>

\* the pool is drained: final_success_rate = scraped_count / len(all_camera_links),
\* a ZeroDivisionError when there are no links
FinalRate ==
    /\ scrape_pc = "collect"
    /\ running = {}
    /\ done = <<>>
    /\ scrape_pc' = IF Len(all_camera_links) = 0 THEN "raised" ELSE "final_open"
    /\ UNCHANGED <<scrapeInputs, page_num, fetch_log, all_camera_links, queue, running,
                   done, camera_data, processed_count, scraped_count, progress_log,
                   temp_file, final_file, scrape_result, extractVars, probeVars, genVars,
                   analyzeVars, expandVars>>

\* open('camera_data.json', 'w')
FinalOpen ==
    /\ scrape_pc = "final_open"
    /\ final_file' = [exists |-> TRUE, parseable |-> FALSE, records |-> <<>>]
    /\ scrape_pc' = "final_dump"
    /\ UNCHANGED <<scrapeInputs, page_num, fetch_log, all_camera_links, queue, running,
                   done, camera_data, processed_count, scraped_count, progress_log,
                   temp_file, scrape_result, extractVars, probeVars, genVars, analyzeVars,
                   expandVars>>

\* json.dump(camera_data, f) and the close of the file
FinalDump ==
    /\ scrape_pc = "final_dump"
    /\ final_file' = [exists |-> TRUE, parseable |-> TRUE, records |-> camera_data]
    /\ scrape_pc' = "cleanup"
    /\ UNCHANGED <<scrapeInputs, page_num, fetch_log, all_camera_links, queue, running,
                   done, camera_data, processed_count, scraped_count, progress_log,
                   temp_file, scrape_result, extractVars, probeVars, genVars, analyzeVars,
                   expandVars>>

\* os.remove('camera_data_temp.json') when it exists, and "return camera_data"
CleanupAndReturn ==
    /\ scrape_pc = "cleanup"
    /\ temp_file' = NoFile
    /\ scrape_result' = camera_data
    /\ scrape_pc' = "done"
    /\ UNCHANGED <<scrapeInputs, page_num, fetch_log, all_camera_links, queue, running,
                   done, camera_data, processed_count, scraped_count, progress_log,
                   final_file, extractVars, probeVars, genVars, analyzeVars, expandVars>>

\* a KeyboardInterrupt anywhere in scrape_cameras: it passes "except Exception",
\* leaves the with blocks (the open file is closed as it is) and ends in
\* main's "except KeyboardInterrupt", which only logs
Interrupt ==
    /\ scrape_pc \in {"harvest", "collect", "checkpoint_open", "checkpoint_dump",
                      "final_open", "final_dump", "cleanup"}
    /\ scrape_pc' = "interrupted"
    /\ UNCHANGED <<scrapeInputs, page_num, fetch_log, all_camera_links, queue, running,
                   done, camera_data, processed_count, scraped_count, progress_log,
                   temp_file, final_file, scrape_result, extractVars, probeVars,
                   genVars, analyzeVars, expandVars>>

ScrapeNext ==
    \/ HarvestPage
    \/ SubmitAll
    \/ \E url \in running : WorkerFinish(url)
    \/ CollectResult
    \/ CheckpointOpen
    \/ CheckpointDump
    \/ FinalRate
    \/ FinalOpen
    \/ FinalDump
    \/ CleanupAndReturn
    \/ Interrupt

SpecScrape == ScrapeInit /\ [][ScrapeNext]_vars

\* the Records held by the parseable artifacts on disk
Persisted ==
    UNION { {f.records[i] : i \in 1..Len(f.records)} :
               f \in {x \in {temp_file, final_file} : x.parseable} }

Accepted == {camera_data[i] : i \in 1..Len(camera_data)}

\* C5: after an interrupt that follows the acceptance of at least 100 Records,
\* camera_data_temp.json exists, is a complete parseable Record list and holds
\* at least 100 Records (no interruption point leaves it truncated or empty).
C5_CheckpointDurable ==
    (scrape_pc = "interrupted" /\ Len(camera_data) >= CheckpointEvery)
    => /\ temp_file.exists
       /\ temp_file.parseable
       /\ Len(temp_file.records) >= CheckpointEvery

\* C5 witness: the interrupt fell in the second checkpoint write, after 200
\* acceptances: the checkpoint of the first 100 Records has been truncated.
C5_Witness ==
    /\ scrape_pc = "interrupted"
    /\ Len(camera_data) = 2 * CheckpointEvery
    /\ temp_file.exists
    /\ ~temp_file.parseable

\* C6: once the interrupt handler has finished, the Records on durable
\* storage are exactly the Records accepted before the interrupt.
C6_InterruptPersistsAccepted ==
    scrape_pc = "interrupted" => Persisted = Accepted

\* C7: whatever the pages give (failures, empty pages, all of them failing),
\* each page 1..N is fetched exactly once in increasing order and
\* scrape_cameras then ends normally: it never raises, and at its end
\* camera_data.json holds the accepted Records, which it returns.
C7_FailedPagesNeverAbort ==
    /\ scrape_pc \notin {"idle", "harvest", "interrupted"}
          => fetch_log = [i \in 1..num_pages |-> i]
    /\ scrape_pc # "raised"
    /\ scrape_pc = "done"
          => /\ final_file = [exists |-> TRUE, parseable |-> TRUE, records |-> camera_data]
             /\ scrape_result = camera_data

(***************************************************************************)
(* Pattern Analyzer: SmartCameraExpander.analyze_camera_patterns           *)
(***************************************************************************)
\* camera.get(key, default)
Get(camera, key, default) == IF key \in DOMAIN camera THEN camera[key] ELSE default

\* counts[key] = counts.get(key, 0) + 1
Incr(counts, key) ==
    IF key \in DOMAIN counts
    THEN [counts EXCEPT ![key] = @ + 1]
    ELSE [k \in DOMAIN counts \cup {key} |-> IF k = key THEN 1 ELSE counts[k]]

NoCounts == [k \in {} |-> 0]

\* the body of the loop of analyze_camera_patterns for one camera: an
\* exception of urlparse or of parsed.port goes to "except Exception:
\* continue" and keeps what the iteration has counted before it
AnalyzeCamera(p, camera) ==
    LET url    == Get(camera, "image_url", <<>>)
        parsed == urlparse(url)
        ip     == hostname(parsed)
        p1     == IF IsIPv4(ip)
                  THEN [p EXCEPT !.ip_ranges = Incr(@, IPStr(NetworkPlus(ip, 0)))]
                  ELSE p
        p2     == IF parsed.path # <<>>
                  THEN [p1 EXCEPT !.url_patterns = Incr(@, parsed.path)]
                  ELSE p1
    IN  IF url = <<>> THEN p
        ELSE IF parsed.error THEN p
        ELSE IF ip = <<>> THEN p
        ELSE IF port(parsed) = PortError THEN p2
        ELSE [p2 EXCEPT !.ports = Incr(@, PortOr80(port(parsed))),
                        !.manufacturers = Incr(@, Get(camera, "manufacturer", UnknownStr)),
                        !.countries = Incr(@, Get(camera, "country", UnknownStr))]

RECURSIVE analyze_camera_patterns(_)
analyze_camera_patterns(cs) ==
    IF cs = <<>>
    THEN [ip_ranges |-> NoCounts, url_patterns |-> NoCounts, ports |-> NoCounts,
          manufacturers |-> NoCounts, countries |-> NoCounts]
    ELSE AnalyzeCamera(analyze_camera_patterns(SubSeq(cs, 1, Len(cs) - 1)), cs[Len(cs)])

\* the Records the analysis is given
AnalyzerRecords ==
    { [image_url |-> <<"h","t","t","p",":","/","/","2","0","3",".","0",".","1","1","3",".","5",":","8","0","/","c","a","m","_","1",".","c","g","i">>,
       manufacturer |-> <<"W","e","b","c","a","m","X","P">>, country |-> <<"J","a","p","a","n">>],
      [image_url |-> <<"h","t","t","p",":","/","/","1","9","8",".","5","1",".","1","0","0",".","2","5","4","/","m","j","p","g","/","v","i","d","e","o",".","m","j","p","g">>,
       manufacturer |-> <<"A","x","i","s">>, country |-> <<"N","o","r","w","a","y">>],
      [image_url |-> <<"h","t","t","p",":","/","/","c","a","m",".","e","x","a","m","p","l","e",".","c","o","m",":","8","0","8","0","/","v","i","e","w">>,
       country |-> <<"J","a","p","a","n">>],
      [image_url |-> <<"h","t","t","p",":","/","/","2","0","3",".","0",".","1","1","3",".","9",":","a","b","c","/","c","a","m","_","1",".","c","g","i">>,
       manufacturer |-> <<"W","e","b","c","a","m","X","P">>, country |-> <<"J","a","p","a","n">>],
      [image_url |-> <<"h","t","t","p",":","/","/","[","2","0","3",".","0",".","1","1","3",".","9","/","c","a","m","_","1",".","c","g","i">>,
       manufacturer |-> <<"A","x","i","s">>, country |-> <<"N","o","r","w","a","y">>],
      [image_url |-> <<"h","t","t","p",":","/","/","2","0","3",".","0",".","1","1","3",".","7","7",":","9","9","9","9","9","/","s","n","a","p",".","j","p","g">>,
       manufacturer |-> <<"A","x","i","s">>],
      [image_url |-> NA, manufacturer |-> NA, country |-> <<"N","o","r","w","a","y">>],
      [country |-> <<"J","a","p","a","n">>] }

MaxCameras == 2

AnalyzeInit ==
    /\ cameras \in UNION {[1..n -> AnalyzerRecords] : n \in 0..MaxCameras}
    /\ analyze_pc = "call"
    /\ patterns = <<>>
    /\ ExtractIdle
    /\ ProbeIdle
    /\ GenIdle
    /\ ScrapeIdle
    /\ ExpandIdle

\* one call analyze_camera_patterns(cameras)
Analyze ==
    /\ analyze_pc = "call"
    /\ patterns' = analyze_camera_patterns(cameras)
    /\ analyze_pc' = "returned"
    /\ UNCHANGED <<cameras, extractVars, probeVars, genVars, scrapeVars, expandVars>>

AnalyzeNext == Analyze

SpecAnalyze == AnalyzeInit /\ [][AnalyzeNext]_vars

\* the media URL of the Record fails to parse: urlparse raises, or the port
\* is not a number in 0..65535
FailsToParse(camera) ==
    LET url == Get(camera, "image_url", <<>>)
    IN  /\ url # <<>>
        /\ \/ urlparse(url).error
           \/ port(urlparse(url)) = PortError

\* cs without its i-th element
Without(cs, i) == SubSeq(cs, 1, i - 1) \o SubSeq(cs, i + 1, Len(cs))

\* C17: a Record whose media URL fails to parse at any step is skipped as a
\* whole: the five count maps are those of the input without that Record
\* (it adds to none of them, and the other Records are still counted).
C17_UnparsableSkipped ==
    analyze_pc = "returned" =>
      \A i \in 1..Len(cameras) :
         FailsToParse(cameras[i]) => patterns = analyze_camera_patterns(Without(cameras, i))

\* C17 witness: the only Record has the media URL http://203.0.113.9:abc/cam_1.cgi,
\* and its address block and its path have been counted.
C17_Witness ==
    /\ analyze_pc = "returned"
    /\ Len(cameras) = 1
    /\ FailsToParse(cameras[1])
    /\ DOMAIN patterns.ip_ranges = {<<"2","0","3",".","0",".","1","1","3",".","0">>}
    /\ DOMAIN patterns.url_patterns = {<<"/","c","a","m","_","1",".","c","g","i">>}
    /\ DOMAIN patterns.ports = {}

(***************************************************************************)
(* Expansion run: SmartCameraExpander.expand_camera_database.              *)
(*                                                                         *)
(* The pool is that of the discovery run.  When the loop leaves by break,  *)
(* the end of the with block waits for the workers, which run the tasks    *)
(* still queued; nothing reads their futures.  list(set(...)) has no fixed *)
(* order: the submitted URLs are any test URLs of the right number, and    *)
(* the workers take them in any order (the pool takes them in the order of *)
(* that list).                                                             *)
(***************************************************************************)
\* generate_similar_urls(camera, 15)
ExpandVariations == 15

MaxTarget == 2

MaxProbeWorkers == 2

\* the contents of camera_data.json (empty: the file is missing or holds [])
ExistingSets ==
    { <<>>,
      <<[image_url |-> <<"h","t","t","p",":","/","/","2","0","3",".","0",".","1","1","3",".","5",":","8","0","/","v","i","e","w">>, country |-> <<"J","a","p","a","n">>]>>,
      <<[image_url |-> <<"h","t","t","p",":","/","/","2","0","3",".","0",".","1","1","3",".","5",":","8","0","8","0","/","v","i","e","w">>, country |-> <<"J","a","p","a","n">>],
        [image_url |-> <<"h","t","t","p",":","/","/","2","0","3",".","0",".","1","1","3",".","6",":","8","0","8","0","/","v","i","e","w">>, country |-> <<"J","a","p","a","n">>]>> }

\* camera.get('country', 'Unknown')
CountryOf(camera) == Get(camera, "country", UnknownStr)

\* lines 305-317: the indices of existing in the order the two loops visit
\* them: the countries in the order of their first camera, and of each
\* country its first 5 cameras
SampleOrder(existing) ==
    LET Same(j, i)   == CountryOf(existing[j]) = CountryOf(existing[i])
        First(i)     == CHOOSE j \in 1..i : Same(j, i) /\ \A l \in 1..(j - 1) : ~Same(l, i)
        sampled      == {i \in 1..Len(existing) :
                            Cardinality({j \in 1..i : Same(j, i)}) <= 5}
        Before(j, i) == First(j) < First(i) \/ (First(j) = First(i) /\ j <= i)
    IN  [p \in 1..Cardinality(sampled) |->
            CHOOSE i \in sampled : Cardinality({j \in sampled : Before(j, i)}) = p]

\* lines 317-322, from the j-th visited camera on.  run.draws[i] is the octet
\* random.randint gives during the call for existing[i] (the same at each of
\* its 15 draws); len(test_urls) counts the URLs of every call, repeated ones
\* included; "break" skips the remaining cameras of the same country
RECURSIVE VisitCameras(_, _, _, _)
VisitCameras(run, order, j, acc) ==
    IF j > Len(order) THEN acc.urls
    ELSE IF CountryOf(run.existing[order[j]]) \in acc.skipped
    THEN VisitCameras(run, order, j + 1, acc)
    ELSE LET more  == generate_similar_urls(
                         run.existing[order[j]], ExpandVariations,
                         [k \in 1..ExpandVariations |-> run.draws[order[j]]], run.counter)
             count == acc.count + Cardinality(more)
         IN  VisitCameras(run, order, j + 1,
                          [urls    |-> acc.urls \cup more,
                           count   |-> count,
                           skipped |-> IF count > run.target * 3
                                       THEN acc.skipped \cup {CountryOf(run.existing[order[j]])}
                                       ELSE acc.skipped])

\* lines 302-326: the URLs to test, without the URLs of the existing cameras
GenerateTestUrls(existing, target, draws, counter) ==
    VisitCameras([existing |-> existing, target |-> target, draws |-> draws,
                  counter |-> counter],
                 SampleOrder(existing), 1, [urls |-> {}, count |-> 0, skipped |-> {}])
       \ {Get(existing[i], "image_url", <<>>) : i \in 1..Len(existing)}

\* what the probed host answers, and the answer of ipapi.co
ProbeAnswers ==
    { [kind |-> "response", status_code |-> 200, content_type |-> <<"i","m","a","g","e","/","j","p","e","g">>],
      [kind |-> "response", status_code |-> 404, content_type |-> <<>>] }

GoodAnswerA ==
    [kind |-> "response", status_code |-> 200,
     body |-> [json |-> "dict",
               data |-> [k \in {"error", "latitude", "longitude", "country_name",
                                "city", "region"} |->
                           CASE k = "error"        -> JNull
                             [] k = "latitude"     -> SampleLat
                             [] k = "longitude"    -> SampleLon
                             [] k = "country_name" -> Japan
                             [] OTHER              -> Tokyo]]]

ExpandInit ==
    /\ existing_cameras \in ExistingSets
    /\ target_new_cameras \in 0..MaxTarget
    /\ expander_workers \in 1..MaxProbeWorkers
    /\ test_urls = {}
    /\ future_to_url = {}
    /\ probe_queue = {}
    /\ probe_running = {}
    /\ probe_done = <<>>
    /\ new_cameras = <<>>
    /\ tested_count = 0
    /\ expansion_file = NoFile
    /\ expanded_file = NoFile
    /\ expand_pc = "start"
    /\ expand_result = <<>>
    /\ ExtractIdle
    /\ ProbeIdle
    /\ GenIdle
    /\ ScrapeIdle
    /\ AnalyzeIdle

expandInputs == <<existing_cameras, target_new_cameras, expander_workers>>

otherVars == <<extractVars, probeVars, genVars, scrapeVars, analyzeVars>>

\* lines 285-328: load the existing cameras, return [] when there are none,
\* else build the list of test URLs
LoadAndGenerate ==
    /\ expand_pc = "start"
    /\ IF existing_cameras = <<>>
       THEN /\ expand_pc' = "done"
            /\ UNCHANGED test_urls
       ELSE /\ expand_pc' = "submit"
            /\ \E draws \in [1..Len(existing_cameras) -> RandomOctets],
                  counter \in RandomCounters :
                  test_urls' = GenerateTestUrls(existing_cameras, target_new_cameras,
                                                draws, counter)
    /\ UNCHANGED <<expandInputs, future_to_url, probe_queue, probe_running, probe_done,
                   new_cameras, tested_count, expansion_file, expanded_file,
                   expand_result, otherVars>>

\* lines 334-338: submit test_urls[:target_new_cameras * 2]
SubmitProbes ==
    /\ expand_pc = "submit"
    /\ LET limit == target_new_cameras * 2
           m     == IF Cardinality(test_urls) < limit THEN Cardinality(test_urls) ELSE limit
           n     == IF m < expander_workers THEN m ELSE expander_workers
       IN  \E urls \in {s \in SUBSET test_urls : Cardinality(s) = m} :
              \E first \in {s \in SUBSET urls : Cardinality(s) = n} :
                 /\ future_to_url' = urls
                 /\ probe_running' = first
                 /\ probe_queue' = urls \ first
    /\ expand_pc' = "collect"
    /\ UNCHANGED <<expandInputs, test_urls, probe_done, new_cameras, tested_count,
                   expansion_file, expanded_file, expand_result, otherVars>>

\* a worker ends test_camera_url(url) and takes the next queued task
ProbeFinish(url) ==
    /\ expand_pc \in {"collect", "shutdown"}
    /\ url \in probe_running
    /\ expand_pc = "collect" => Len(probe_done) < MaxPending
    /\ IF probe_queue = {}
       THEN /\ probe_running' = probe_running \ {url}
            /\ UNCHANGED probe_queue
       ELSE \E next \in probe_queue :
               /\ probe_running' = (probe_running \ {url}) \cup {next}
               /\ probe_queue' = probe_queue \ {next}
    /\ \E response \in ProbeAnswers :
          probe_done' = Append(probe_done,
                               test_camera_url(url, response, GoodAnswerA,
                                               [kind |-> "exception"]).result)
    /\ UNCHANGED <<expandInputs, test_urls, future_to_url, new_cameras, tested_count,
                   expansion_file, expanded_file, expand_pc, expand_result, otherVars>>

\* if len(new_cameras) >= target_new_cameras: break
TargetReached_Never(count, target) == FALSE

TargetReached(count, target) == count >= target

\* one iteration of "for future in as_completed(future_to_url)"
CollectProbe ==
    /\ expand_pc = "collect"
    /\ probe_done # <<>>
    /\ probe_done' = Tail(probe_done)
    /\ tested_count' = tested_count + 1
    /\ IF Head(probe_done) # None
       THEN /\ new_cameras' = Append(new_cameras, Head(probe_done)[1])
            /\ expand_pc' = IF TargetReached(Len(new_cameras'), target_new_cameras)
                            THEN "shutdown" ELSE "collect"
       ELSE UNCHANGED <<new_cameras, expand_pc>>
    /\ UNCHANGED <<expandInputs, test_urls, future_to_url, probe_queue, probe_running,
                   expansion_file, expanded_file, expand_result, otherVars>>

\* the end of the with block: every submitted task has run
PoolExit ==
    /\ expand_pc \in {"collect", "shutdown"}
    /\ probe_running = {}
    /\ expand_pc = "collect" => probe_done = <<>>
    /\ expand_pc' = "save"
    /\ UNCHANGED <<expandInputs, test_urls, future_to_url, probe_queue, probe_running,
                   probe_done, new_cameras, tested_count, expansion_file, expanded_file,
                   expand_result, otherVars>>

\* lines 365-377: write both files when new_cameras is not empty, and return it
SaveAndReturn ==
    /\ expand_pc = "save"
    /\ IF new_cameras # <<>>
       THEN /\ expansion_file' = [exists |-> TRUE, parseable |-> TRUE,
                                  records |-> new_cameras]
            /\ expanded_file' = [exists |-> TRUE, parseable |-> TRUE,
                                 records |-> existing_cameras \o new_cameras]
       ELSE UNCHANGED <<expansion_file, expanded_file>>
    /\ expand_result' = new_cameras
    /\ expand_pc' = "done"
    /\ UNCHANGED <<expandInputs, test_urls, future_to_url, probe_queue, probe_running,
                   probe_done, new_cameras, tested_count, otherVars>>

ExpandNext ==
    \/ LoadAndGenerate
    \/ SubmitProbes
    \/ \E url \in probe_running : ProbeFinish(url)
    \/ CollectProbe
    \/ PoolExit
    \/ SaveAndReturn

SpecExpand == ExpandInit /\ [][ExpandNext]_vars

\* C19: an expansion run with target T submits at most 2*T probe tasks, its
\* list of new Records never has more than T entries, neither when it is
\* written to smart_expansion_cameras.json nor when it is returned, and once
\* the list has T entries no later probe result is added to it.
C19_TargetBounds ==
    /\ [](/\ Cardinality(future_to_url) <= 2 * target_new_cameras
          /\ Len(new_cameras) <= target_new_cameras
          /\ Len(expansion_file.records) <= target_new_cameras
          /\ expand_pc = "done" => /\ expand_result = new_cameras
                                   /\ Len(expand_result) <= target_new_cameras)
    /\ [][Len(new_cameras) >= target_new_cameras => new_cameras' = new_cameras]_vars

\* C19 witness: with target 1 two probes were submitted out of more test
\* URLs, both found a camera, and the run returned and wrote the one Record
\* the loop took before it left.
C19_Witness ==
    /\ expand_pc = "done"
    /\ target_new_cameras = 1
    /\ Cardinality(test_urls) > 2
    /\ Cardinality(future_to_url) = 2
    /\ Len(probe_done) = 1
    /\ probe_done[1] # None
    /\ tested_count = 1
    /\ Len(expand_result) = 1
    /\ expansion_file.records = expand_result

\* C12: a progress event is emitted at every 50th task completion, i.e. when
\* the processed count reaches 50, 100, 150, ..., whether that task was
\* accepted, rejected or failed: the events so far are those of the multiples
\* of 50 up to the processed count, in order.
C12_ProgressEveryK ==
    /\ Len(progress_log) = processed_count \div ProgressEvery
    /\ \A i \in 1..Len(progress_log) : progress_log[i][1] = i * ProgressEvery

\* C12 witness: the 50th completed task was rejected (its page shows no city)
\* and the loop went on without a progress event.
C12_Witness ==
    /\ scrape_pc = "collect"
    /\ base_url \o Href(ProgressEvery) \in bad_pages
    /\ processed_count = ProgressEvery
    /\ scraped_count = ProgressEvery - 1
    /\ progress_log = <<>>

\* the run has left the collection loop without being stopped
PoolDrained == scrape_pc \in {"final_open", "final_dump", "cleanup", "done", "raised"}

\* C13: a task whose result raises is isolated: the step that takes it from
\* as_completed adds exactly one to the processed count and leaves the
\* accepted count and camera_data unchanged; the other tasks are still
\* consumed, so that after the loop of a run that was not stopped the
\* processed count is the number of submitted tasks and the accepted count is
\* at most the processed count.
C13_RaisingTaskIsolated ==
    /\ [][(done # <<>> /\ Head(done).raised /\ done' = Tail(done))
            => /\ processed_count' = processed_count + 1
               /\ UNCHANGED <<camera_data, scraped_count, queue, running>>]_vars
    /\ [](PoolDrained => /\ processed_count = Len(all_camera_links)
                         /\ scraped_count <= processed_count)

\* C13 witness: three tasks were submitted, the task of the second link
\* raised, and the run ended with three processed and two accepted.
C13_Witness ==
    /\ scrape_pc = "done"
    /\ Len(all_camera_links) = 3
    /\ raising_tasks = {base_url \o Href(2)}
    /\ bad_pages = {}
    /\ processed_count = 3
    /\ scraped_count = 2

\* the accepted Records up to the last multiple of 100
LastCheckpoint ==
    SubSeq(camera_data, 1, (scraped_count \div CheckpointEvery) * CheckpointEvery)

\* C14: camera_data_temp.json is written exactly when the accepted count
\* reaches a multiple of 100 and then holds all the Records accepted so far
\* (as many as the accepted count); on clean completion camera_data.json
\* holds exactly the accepted Records and camera_data_temp.json is gone.
C14_CheckpointAndFinal ==
    /\ scrape_pc \in {"collect", "final_open", "final_dump", "cleanup"} =>
          /\ Len(camera_data) = scraped_count
          /\ IF scraped_count < CheckpointEvery
             THEN temp_file = NoFile
             ELSE temp_file = [exists |-> TRUE, parseable |-> TRUE,
                               records |-> LastCheckpoint]
    /\ scrape_pc = "checkpoint_dump" => scraped_count % CheckpointEvery = 0
    /\ scrape_pc = "done" =>
          /\ final_file = [exists |-> TRUE, parseable |-> TRUE, records |-> camera_data]
          /\ Len(camera_data) = scraped_count
          /\ ~temp_file.exists

\* C14 witness: a run that accepted 199 Records has completed: the checkpoint
\* written at the 100th acceptance was removed after the final write.
C14_Witness ==
    /\ scrape_pc = "done"
    /\ scraped_count = 2 * CheckpointEvery - 1
    /\ Len(final_file.records) = 2 * CheckpointEvery - 1
    /\ temp_file = NoFile

\* C15: camera_data, the counters and the artifacts are changed by the loop
\* that iterates the completed results only: a step in which a worker ends or
\* takes a task leaves camera_data, processed_count, scraped_count, the
\* progress events, camera_data_temp.json and camera_data.json unchanged.
C15_SingleWriter ==
    [][(running' # running \/ queue' # queue \/ Len(done') > Len(done))
         => UNCHANGED <<camera_data, processed_count, scraped_count, progress_log,
                        temp_file, final_file>>]_vars

\* C15 witness: two workers have ended their tasks with a Record each before
\* the loop took either, and nothing is accepted or counted yet.
C15_Witness ==
    /\ scrape_pc = "collect"
    /\ Len(done) = 2
    /\ \A i \in 1..2 : done[i].value # None
    /\ camera_data = <<>>
    /\ processed_count = 0
    /\ scraped_count = 0

\* the submitted links all have a complete detail page and a task that returns
AllLinksValid ==
    \A i \in 1..Len(all_camera_links) :
       all_camera_links[i] \notin bad_pages \cup raising_tasks

\* C16: a listing of 3 distinct links with valid detail pages ends with
\* exactly 3 Records, one per link, in every completion order, and each
\* Record carries the provenance tag "listing" (as its origin or source).
C16_ThreeListingRecords ==
    (scrape_pc = "done" /\ Len(all_camera_links) = 3 /\ AllLinksValid) =>
      /\ Len(camera_data) = 3
      /\ {camera_data[i].page_url : i \in 1..3} = {all_camera_links[i] : i \in 1..3}
      /\ \A i \in 1..3 :
            \E k \in {"origin", "source"} \cap DOMAIN camera_data[i] :
               camera_data[i][k] = <<"l","i","s","t","i","n","g">>

\* C16 witness: the run over one listing page of 3 links has ended with 3
\* Records, the one of the third link accepted first.
C16_Witness ==
    /\ scrape_pc = "done"
    /\ num_pages = 1
    /\ Len(all_camera_links) = 3
    /\ AllLinksValid
    /\ Len(camera_data) = 3
    /\ camera_data[1].page_url = base_url \o Href(3)

====
